---- MODULE Spec2Model ----
(***************************************************************************)
(* Adaptive memory pressure monitor and release controller of space-api   *)
(* (src/src/services/memory_service.rs).                                   *)
(*                                                                         *)
(* Time is an integer number of milliseconds (std::time::Instant); a      *)
(* Duration::as_secs() is the whole-second floor of a millisecond span.   *)
(* Memory sizes are bytes where the code reads bytes and MB where the     *)
(* code keeps MB.  f64 arithmetic is modelled by exact rationals: every   *)
(* value the model reaches is far below 2^53, where u64 -> f64 is exact.  *)
(***************************************************************************)
EXTENDS Integers, Sequences, FiniteSets, TLC

VARIABLES
    config,              \* MemoryManager.config : MemoryConfig
    jemalloc_available,  \* JemallocInterface::is_available() (fixed per build target)
    now,                 \* the clock read by Instant::now(), in ms
    start_time,          \* MemoryManager.start_time
    last_gc_time,        \* MemoryManager.last_gc_time
    memory_pressure,     \* MemoryManager.memory_pressure
    gc_failure_count,    \* MemoryManager.gc_failure_count
    monitor_state,       \* MemoryManager.monitor_state : MemoryMonitorState
    performance_stats,   \* MemoryManager.performance_stats (integer fields)
    memory_history,      \* MemoryManager.memory_history : Vec<(Instant, u64)>
    system_memory_history, \* MemoryManager.system_memory_history : VecDeque<u64>
    task,                \* the running task: position and locals
    obs,                 \* observation of the run (history variable, not program state)
    budget,              \* what the exploration may still do: cycles, calls, faults
    call                 \* last application of a pure function: inputs and result;
                         \* or the accessor call an external reader has in progress

vars == << config, jemalloc_available, now, start_time, last_gc_time,
           memory_pressure, gc_failure_count, monitor_state, performance_stats,
           memory_history, system_memory_history, task, obs, budget, call >>

(***************************************************************************)
(* Program constants                                                       *)
(***************************************************************************)
ProbeTimeoutSecs == 5
PurgeTimeoutSecs == 10
CacheTimeoutSecs == 30
CycleTimeoutSecs == 30
SettleDelayMs == 200
MinIntervalSecs == 5
MaxIntervalSecs == 300
AdjustWindowSecs == 60
HistoryCap == 1000
HistoryMaxAgeSecs == 3600
SysHistoryCap == 60
DefaultDynamicInterval == 30
TrendMinSamples == 10
TrendWindowDivisor == 4
TrendWindowMin == 5
TrendWindowMax == 50

(***************************************************************************)
(* Bounds of the model                                                     *)
(***************************************************************************)
MaxCycles == 3        \* monitor cycles explored
MaxCalls == 2         \* direct API calls explored
MaxFaults == 1        \* failures and delays of the collaborators, per run
MaxLiveCycles == 2    \* monitor cycles explored under fairness
MaxLiveFaults == 1    \* failures and delays explored under fairness
MaxReleaseFaults == 6 \* failures and delays within one call, every step failing
MaxUsageMb == 620     \* usages given to the pure functions
MaxFailures == 7      \* consecutive-failure counts given to the pure function
MaxRecords == 2       \* samples recorded on top of a drawn history
MaxRunCycles == 3     \* monitor cycles explored when cycles fail in a row
MaxRunFaults == 2     \* failures and delays explored when cycles fail in a row
MaxPaceCycles == 5    \* monitor cycles explored for the pace of interval changes
MaxLockRounds == 1    \* operations each task runs in the lock protocol
MaxStatusCalls == 2   \* get_memory_status calls next to one monitor cycle
MaxReaderCycles == 2  \* monitor cycles explored next to external readers
MaxReaderCalls == 2   \* accessor calls of external readers

None == "None"
Levels == {"Low", "Medium", "High", "Critical"}

Max(a, b) == IF a >= b THEN a ELSE b
Min(a, b) == IF a <= b THEN a ELSE b

\* Duration::from_secs
from_secs(s) == s * 1000

\* Duration::as_secs: whole seconds of a millisecond span
as_secs(ms) == ms \div 1000

\* bytes / 1024 / 1024
bytes_to_mb(bytes) == (bytes \div 1024) \div 1024

MB(n) == n * 1024 * 1024

\* u64::saturating_sub
saturating_sub_wrapping(a, b) == IF a >= b THEN a - b ELSE b - a
saturating_sub(a, b) == IF a >= b THEN a - b ELSE 0

(***************************************************************************)
(* Pure functions                                                          *)
(***************************************************************************)

\* usage_percentage < k, for usage_percentage = current_mb / threshold_mb * 100.0
percentage_below(current_mb, threshold_mb, k) ==
    100 * current_mb < k * threshold_mb

calculate_pressure_level_inclusive(current_mb, threshold_mb) ==
    IF 100 * current_mb <= 60 * threshold_mb THEN "Low"
    ELSE IF 100 * current_mb <= 80 * threshold_mb THEN "Medium"
    ELSE IF 100 * current_mb <= 100 * threshold_mb THEN "High"
    ELSE "Critical"

calculate_pressure_level(current_mb, threshold_mb) ==
    IF percentage_below(current_mb, threshold_mb, 60) THEN "Low"
    ELSE IF percentage_below(current_mb, threshold_mb, 80) THEN "Medium"
    ELSE IF percentage_below(current_mb, threshold_mb, 100) THEN "High"
    ELSE "Critical"

should_trigger_release_at_threshold(current_mb, cfg, last_gc, t) ==
    IF current_mb < cfg.threshold_mb
    THEN FALSE
    ELSE as_secs(t - last_gc) >= cfg.gc_cooldown_secs

should_trigger_release_open_at_start(current_mb, cfg, last_gc, t) ==
    IF current_mb <= cfg.threshold_mb
    THEN FALSE
    ELSE last_gc = 0 \/ as_secs(t - last_gc) >= cfg.gc_cooldown_secs

\* should_trigger_release, reading last_gc_time = last_gc at instant t
should_trigger_release(current_mb, cfg, last_gc, t) ==
    IF current_mb <= cfg.threshold_mb
    THEN FALSE
    ELSE as_secs(t - last_gc) >= cfg.gc_cooldown_secs

\* pressure_multiplier, in quarters (0.5, 0.75, 1.0, 1.5)
pressure_multiplier_x4(pressure) ==
    CASE pressure = "Critical" -> 2
      [] pressure = "High" -> 3
      [] pressure = "Medium" -> 4
      [] pressure = "Low" -> 6

failure_multiplier_x2_decreasing(consecutive_failures) ==
    IF consecutive_failures <= 2 THEN 4
    ELSE IF consecutive_failures <= 5 THEN 3
    ELSE 2

\* failure_multiplier, in halves (1.0, 1.5, 2.0)
failure_multiplier_x2(consecutive_failures) ==
    IF consecutive_failures <= 2 THEN 2
    ELSE IF consecutive_failures <= 5 THEN 3
    ELSE 4

new_interval_unclamped(base_interval, pressure, consecutive_failures) ==
    (base_interval * pressure_multiplier_x4(pressure)
         * failure_multiplier_x2(consecutive_failures)) \div 8

\* ((base as f64 * pressure_multiplier * failure_multiplier) as u64).max(5).min(300)
new_interval(base_interval, pressure, consecutive_failures) ==
    Min(Max((base_interval * pressure_multiplier_x4(pressure)
                 * failure_multiplier_x2(consecutive_failures)) \div 8,
            MinIntervalSecs),
        MaxIntervalSecs)

calculate_adaptive_interval_inverted(current_interval, consecutive_failures, last_adjustment, pressure, base_interval, t) ==
    LET inv == CASE pressure = "Critical" -> "Low"
                 [] pressure = "High" -> "Medium"
                 [] pressure = "Medium" -> "High"
                 [] pressure = "Low" -> "Critical"
        ni == new_interval(base_interval, inv, consecutive_failures)
    IN  IF t - last_adjustment < from_secs(AdjustWindowSecs) /\ ni # current_interval
        THEN current_interval
        ELSE ni

calculate_adaptive_interval_unsuppressed(current_interval, consecutive_failures, last_adjustment, pressure, base_interval, t) ==
    new_interval(base_interval, pressure, consecutive_failures)

\* calculate_adaptive_interval, with memory_pressure = pressure read at instant t
calculate_adaptive_interval(current_interval, consecutive_failures, last_adjustment, pressure, base_interval, t) ==
    LET ni == new_interval(base_interval, pressure, consecutive_failures)
    IN  IF t - last_adjustment < from_secs(AdjustWindowSecs) /\ ni # current_interval
        THEN current_interval
        ELSE ni


(***************************************************************************)
(* Inputs explored                                                         *)
(***************************************************************************)

\* MemoryConfig values: the defaults' timing, and a fast test-style timing
Configs ==
    { [threshold_mb |-> 10, check_interval_secs |-> 30, gc_cooldown_secs |-> 30],
      [threshold_mb |-> 10, check_interval_secs |-> 1, gc_cooldown_secs |-> 2] }

\* bytes reported by the allocator probe (0 and sub-MB values fall through)
ProbeBytes == { 0, MB(3), MB(12) }

\* bytes reported by the OS-level process query
FallbackBytes == { 500000, MB(15) }

\* entries removed by a cache cleanup
CacheCounts == { 2 }

\* pauses between direct API calls
DirectWaits == { 2000 }

\* usages handed to update_memory_pressure by a direct caller
DirectUsages == { 6 }

NoDeadline == -1
NoInstant == -1

(***************************************************************************)
(* State after MemoryManager::new                                          *)
(***************************************************************************)

EmptyResult == [memory_freed_mb |-> 0, cache_entries_cleared |-> 0, gc_executed |-> FALSE]

InitTask ==
    [ mode |-> "direct", pc |-> "idle", fn |-> "none", site |-> "none",
      consecutive_failures |-> 0, last_successful_check |-> 0,
      current_interval |-> 0, last_interval_adjustment |-> 0,
      cycle_start |-> 0, deadline |-> NoDeadline, waited |-> FALSE,
      current_memory |-> 0, memory_before |-> 0, memory_after |-> 0,
      result |-> EmptyResult, timestamp |-> 0,
      ret |-> "Pending", release_ret |-> "Pending" ]

InitObs ==
    [ completed |-> 0, freed_sum |-> 0, last_completion |-> NoInstant,
      max_written |-> 0, call_start |-> NoInstant, rc_at_start |-> 0,
      completion_at_start |-> NoInstant, gate_time |-> NoInstant,
      entered |-> FALSE, slept |-> NoInstant, returned_interval |-> NoInstant,
      via_check |-> FALSE, via_check_at_start |-> FALSE,
      failed_run |-> 0, succeeded |-> 0,
      interval_set_at |-> NoInstant, interval_changes |-> 0,
      cache_failed |-> FALSE, classified |-> NoInstant ]

NoCall == [fn |-> "none"]

\* PerformanceStats::default (the f64 running averages are not modelled)
PerformanceStatsDefault ==
    [ monitoring_cycles |-> 0, max_monitoring_time_ms |-> 0,
      memory_query_success |-> 0, memory_query_failures |-> 0,
      interval_adjustments |-> 0,
      current_dynamic_interval |-> DefaultDynamicInterval ]

\* MemoryManager::new(cfg) on a build where is_available() = avail
Constructed(cfg, avail, b) ==
    /\ config = cfg
    /\ jemalloc_available = avail
    /\ now = 0
    /\ start_time = 0
    /\ last_gc_time = 0
    /\ memory_pressure = "Low"
    /\ gc_failure_count = 0
    /\ monitor_state = [ current_usage_mb |-> 0, peak_usage_mb |-> 0,
                         pressure_level |-> "Low", last_release_time |-> NoInstant,
                         release_count |-> 0, total_freed_mb |-> 0 ]
    /\ performance_stats = PerformanceStatsDefault
    /\ memory_history = << >>
    /\ system_memory_history = << >>
    /\ task = InitTask
    /\ obs = InitObs
    /\ budget = b

\* a manager used by one task at a time
New(cfg, avail, b) == Constructed(cfg, avail, b) /\ call = NoCall

Init ==
    \E cfg \in Configs, avail \in BOOLEAN :
        New(cfg, avail, [cycles |-> MaxCycles, calls |-> MaxCalls, faults |-> MaxFaults])


(***************************************************************************)
(* State updates made by the helpers of MemoryManager                      *)
(***************************************************************************)

\* update_memory_query_stats on the integer counters
update_memory_query_stats(stats, success) ==
    IF success
    THEN [stats EXCEPT !.memory_query_success = @ + 1]
    ELSE [stats EXCEPT !.memory_query_failures = @ + 1]

update_memory_history_drop_newest(hist, t, memory_mb) ==
    LET pushed == Append(hist, << t, memory_mb >>)
        capped == IF Len(pushed) > HistoryCap
                  THEN SubSeq(pushed, 1, Len(pushed) - 1)
                  ELSE pushed
        one_hour_ago == t - from_secs(HistoryMaxAgeSecs)
    IN  SelectSeq(capped, LAMBDA e : e[1] > one_hour_ago)

\* update_memory_history: push, drop the oldest above the cap, drop the aged
update_memory_history(hist, t, memory_mb) ==
    LET pushed == Append(hist, << t, memory_mb >>)
        capped == IF Len(pushed) > HistoryCap THEN Tail(pushed) ELSE pushed
        one_hour_ago == t - from_secs(HistoryMaxAgeSecs)
    IN  SelectSeq(capped, LAMBDA e : e[1] > one_hour_ago)

\* update_system_memory_history: push_back, pop_front above the cap
update_system_memory_history(sys, memory_mb) ==
    LET pushed == Append(sys, memory_mb)
    IN  IF Len(pushed) > SysHistoryCap THEN Tail(pushed) ELSE pushed

peak_update_stale_level(state, current_mb, level) ==
    [state EXCEPT !.current_usage_mb = current_mb,
                  !.peak_usage_mb = IF current_mb > @ THEN current_mb ELSE @]

peak_update_overwrite(state, current_mb, level) ==
    [state EXCEPT !.current_usage_mb = current_mb,
                  !.pressure_level = level,
                  !.peak_usage_mb = current_mb]

\* safe_update_memory_pressure, the monitor_state critical section
peak_update(state, current_mb, level) ==
    [state EXCEPT !.current_usage_mb = current_mb,
                  !.pressure_level = level,
                  !.peak_usage_mb = IF current_mb > @ THEN current_mb ELSE @]

release_stats_update_skip_zero(state, timestamp, result) ==
    [state EXCEPT !.last_release_time = timestamp,
                  !.release_count = IF result.memory_freed_mb > 0 THEN @ + 1 ELSE @,
                  !.total_freed_mb = @ + result.memory_freed_mb]

\* update_gc_timestamp_and_stats, the monitor_state critical section
release_stats_update(state, timestamp, result) ==
    [state EXCEPT !.last_release_time = timestamp,
                  !.release_count = @ + 1,
                  !.total_freed_mb = @ + result.memory_freed_mb]

\* Option<f64> of get_memory_trend: None, or Some(delta_mb * 3600.0 / span_secs)
NoTrend == [some |-> FALSE, delta_mb |-> 0, span_secs |-> 0]

SomeTrend(delta_mb, span_secs) ==
    [some |-> TRUE, delta_mb |-> delta_mb, span_secs |-> span_secs]

\* (history.len() / 4).max(5).min(50)
recent_count(len) ==
    Min(Max(len \div TrendWindowDivisor, TrendWindowMin), TrendWindowMax)

\* Instant::duration_since: zero when the other instant is later
duration_since(later, earlier) == Max(later - earlier, 0)

\* get_memory_trend on the history hist: the newest and the oldest of the
\* most recent recent_count samples, the span between them in whole seconds
get_memory_trend(hist) ==
    IF Len(hist) < TrendMinSamples
    THEN NoTrend
    ELSE LET taken == Min(recent_count(Len(hist)), Len(hist))
             newest == hist[Len(hist)]
             oldest == hist[Len(hist) - taken + 1]
             time_span == as_secs(duration_since(newest[1], oldest[1]))
         IN  IF taken < 2 THEN NoTrend
             ELSE IF time_span > 0
                  THEN SomeTrend(newest[2] - oldest[2], time_span)
                  ELSE NoTrend

RECURSIVE sum_usage(_, _, _)
\* history.iter().map(|(_, memory)| *memory).sum() over the samples lo..hi
\* (summed by halves: the evaluation stays shallow for 1000 samples)
sum_usage(hist, lo, hi) ==
    IF lo > hi THEN 0
    ELSE IF lo = hi THEN hist[lo][2]
    ELSE sum_usage(hist, lo, (lo + hi) \div 2)
             + sum_usage(hist, (lo + hi) \div 2 + 1, hi)

calculate_average_memory_usage_truncating(hist) ==
    IF Len(hist) = 0
    THEN [num |-> 0, den |-> 1]
    ELSE [num |-> sum_usage(hist, 1, Len(hist)) \div Len(hist), den |-> 1]

\* calculate_average_memory_usage: the f64 quotient total / len as num / den,
\* 0.0 for the empty history
calculate_average_memory_usage(hist) ==
    IF Len(hist) = 0
    THEN [num |-> 0, den |-> 1]
    ELSE [num |-> sum_usage(hist, 1, Len(hist)), den |-> Len(hist)]

(***************************************************************************)
(* Positions of a task                                                     *)
(***************************************************************************)

\* where a finished or cancelled call hands control back
ReturnPc(t) == IF t.mode = "loop" THEN "cycle_done" ELSE "returned"

check_query_done_zero_on_error(t, ok, mb) ==
    [t EXCEPT !.current_memory = IF ok THEN mb ELSE 0, !.pc = "pressure_lock"]

\* check_and_release_if_needed: `get_current_memory_usage().await?`
check_query_done(t, ok, mb) ==
    IF ok
    THEN [t EXCEPT !.current_memory = mb, !.pc = "pressure_lock"]
    ELSE [t EXCEPT !.ret = "Err", !.pc = ReturnPc(t)]

\* trigger_global_release: memory_before, 0 when the query failed
before_query_done(t, ok, mb) ==
    [t EXCEPT !.memory_before = IF ok THEN mb ELSE 0, !.pc = "cache"]

\* trigger_global_release: memory_after (memory_before when the query failed)
\* and memory_freed_mb
after_query_done(t, ok, mb) ==
    LET after == IF ok THEN mb ELSE t.memory_before
    IN  [t EXCEPT !.memory_after = after,
                  !.result.memory_freed_mb = saturating_sub(t.memory_before, after),
                  !.pc = "pressure_lock"]

\* the continuation of get_current_memory_usage at its three call sites
query_done(t, ok, mb) ==
    CASE t.site = "check" -> check_query_done(t, ok, mb)
      [] t.site = "before" -> before_query_done(t, ok, mb)
      [] t.site = "after" -> after_query_done(t, ok, mb)

cache_done_propagate(t, ok, cleaned) ==
    IF ok
    THEN [t EXCEPT !.result.cache_entries_cleared = cleaned, !.pc = "purge"]
    ELSE [t EXCEPT !.release_ret = "Err", !.ret = "Err", !.pc = ReturnPc(t)]

\* trigger_global_release: the match on cleanup_cache()
cache_done(t, ok, cleaned) ==
    [t EXCEPT !.result.cache_entries_cleared = IF ok THEN cleaned ELSE 0,
              !.pc = "purge"]

\* a blocking step of duration d ends before the cycle's timeout fires
CanFinish(d) == task.deadline = NoDeadline \/ now + d <= task.deadline

\* the 30 s timeout of the cycle can fire while a step of at most d is pending
CanExpire(d) == task.deadline # NoDeadline /\ now + d >= task.deadline

\* a collaborator may still fail or be slow
CanFault == budget.faults > 0
Faulted == [budget EXCEPT !.faults = @ - 1]

Fixed == << config, jemalloc_available, start_time, call >>

(***************************************************************************)
(* get_current_memory_usage                                                *)
(***************************************************************************)

\* the allocator probe answers within 5 s with at least 1 MB: returned as is
ProbeReturns ==
    /\ task.pc = "query"
    /\ jemalloc_available
    /\ \E bytes \in ProbeBytes :
          /\ bytes > 0
          /\ bytes_to_mb(bytes) > 0
          /\ task' = query_done(task, TRUE, bytes_to_mb(bytes))
    /\ UNCHANGED << Fixed, now, last_gc_time, memory_pressure, gc_failure_count,
                    monitor_state, performance_stats, memory_history,
                    system_memory_history, obs, budget >>

\* the probe reports nothing usable (0 bytes, under 1 MB, an error, a panic)
\* or runs into its 5 s timeout: the OS-level query is next
ProbeFallsThrough ==
    /\ task.pc = "query"
    /\ jemalloc_available
    /\ CanFault
    /\ \/ now' = now
       \/ /\ CanFinish(from_secs(ProbeTimeoutSecs))
          /\ now' = now + from_secs(ProbeTimeoutSecs)
    /\ task' = [task EXCEPT !.pc = "fallback"]
    /\ budget' = Faulted
    /\ UNCHANGED << Fixed, last_gc_time, memory_pressure, gc_failure_count,
                    monitor_state, performance_stats, memory_history,
                    system_memory_history, obs >>

\* is_available() is false: straight to the OS-level query
ProbeUnavailable ==
    /\ task.pc = "query"
    /\ ~jemalloc_available
    /\ task' = [task EXCEPT !.pc = "fallback"]
    /\ UNCHANGED << Fixed, now, last_gc_time, memory_pressure, gc_failure_count,
                    monitor_state, performance_stats, memory_history,
                    system_memory_history, obs, budget >>

\* the OS-level query succeeds: counted, recorded in both histories, returned
FallbackReturns ==
    /\ task.pc = "fallback"
    /\ \E bytes \in FallbackBytes :
          /\ performance_stats' = update_memory_query_stats(performance_stats, TRUE)
          /\ memory_history' =
                 update_memory_history(memory_history, now, bytes_to_mb(bytes))
          /\ system_memory_history' =
                 update_system_memory_history(system_memory_history, bytes_to_mb(bytes))
          /\ task' = query_done(task, TRUE, bytes_to_mb(bytes))
    /\ UNCHANGED << Fixed, now, last_gc_time, memory_pressure, gc_failure_count,
                    monitor_state, obs, budget >>

\* the OS-level query fails (process not found, or the blocking task panicked)
FallbackFails ==
    /\ task.pc = "fallback"
    /\ CanFault
    /\ performance_stats' = update_memory_query_stats(performance_stats, FALSE)
    /\ task' = query_done(task, FALSE, 0)
    /\ budget' = Faulted
    /\ UNCHANGED << Fixed, now, last_gc_time, memory_pressure, gc_failure_count,
                    monitor_state, memory_history, system_memory_history, obs >>

(***************************************************************************)
(* safe_update_memory_pressure                                             *)
(***************************************************************************)

\* an external reader is inside the critical section of get_monitor_state
\* (generate_memory_report begins with it): monitor_state.lock().await of the
\* task stays pending until the reader is out
StateLockedByReader == call.fn = "generate_memory_report" /\ call.pc = "read"

\* the usage being classified: memory_after inside a release, else the sample
UsageToClassify(t) == IF t.site = "after" THEN t.memory_after ELSE t.current_memory

\* critical section on memory_pressure
PressureLock ==
    /\ task.pc = "pressure_lock"
    /\ memory_pressure' =
           calculate_pressure_level(UsageToClassify(task), config.threshold_mb)
    /\ task' = [task EXCEPT !.pc = "state_lock"]
    /\ obs' = [obs EXCEPT !.classified = UsageToClassify(task)]
    /\ UNCHANGED << Fixed, now, last_gc_time, gc_failure_count, monitor_state,
                    performance_stats, memory_history, system_memory_history,
                    budget >>

\* critical section on monitor_state; then back to the caller
StateLock ==
    /\ task.pc = "state_lock"
    /\ ~StateLockedByReader
    /\ monitor_state' =
           peak_update(monitor_state, UsageToClassify(task),
                       calculate_pressure_level(UsageToClassify(task),
                                                config.threshold_mb))
    /\ obs' = [obs EXCEPT !.max_written = Max(@, UsageToClassify(task))]
    /\ task' = [task EXCEPT !.pc = CASE task.site = "after" -> "stamp_gc"
                                     [] task.fn = "update" -> ReturnPc(task)
                                     [] OTHER -> "gate",
                            !.ret = IF task.fn = "update" THEN "Ok" ELSE @]
    /\ UNCHANGED << Fixed, now, last_gc_time, memory_pressure, gc_failure_count,
                    performance_stats, memory_history, system_memory_history,
                    budget >>

(***************************************************************************)
(* check_and_release_if_needed and trigger_global_release                  *)
(***************************************************************************)

gate_done_no_cooldown(t, current_mb, cfg, last_gc, instant) ==
    IF current_mb > cfg.threshold_mb
    THEN [t EXCEPT !.pc = "query", !.site = "before"]
    ELSE [t EXCEPT !.ret = "None", !.pc = ReturnPc(t)]

\* check_and_release_if_needed: the branch on should_trigger_release
gate_done(t, current_mb, cfg, last_gc, instant) ==
    IF should_trigger_release(current_mb, cfg, last_gc, instant)
    THEN [t EXCEPT !.pc = "query", !.site = "before"]
    ELSE [t EXCEPT !.ret = "None", !.pc = ReturnPc(t)]

\* should_trigger_release reads last_gc_time and the clock; the release
\* pipeline starts, or the call returns Ok(None)
Gate ==
    /\ task.pc = "gate"
    /\ task' = gate_done(task, task.current_memory, config, last_gc_time, now)
    /\ obs' = [obs EXCEPT !.gate_time = now, !.entered = (task'.pc = "query")]
    /\ UNCHANGED << Fixed, now, last_gc_time, memory_pressure, gc_failure_count,
                    monitor_state, performance_stats, memory_history,
                    system_memory_history, budget >>

\* cleanup_cache: entries removed, or its 30 s timeout
CacheCleanup ==
    /\ task.pc = "cache"
    /\ \/ /\ \E n \in CacheCounts : task' = cache_done(task, TRUE, n)
          /\ UNCHANGED << now, budget, obs >>
       \/ /\ CanFault
          /\ CanFinish(from_secs(CacheTimeoutSecs))
          /\ now' = now + from_secs(CacheTimeoutSecs)
          /\ task' = cache_done(task, FALSE, 0)
          /\ budget' = Faulted
          /\ obs' = [obs EXCEPT !.cache_failed = TRUE]
    /\ UNCHANGED << Fixed, last_gc_time, memory_pressure, gc_failure_count,
                    monitor_state, performance_stats, memory_history,
                    system_memory_history >>

\* purge_dirty_pages under its 10 s timeout.  The arm Ok(Ok(_)) takes every
\* value the blocking task returns, Err(JemallocError) included; a panic of
\* the blocking task and the timeout go to handle_gc_failure
Purge ==
    /\ task.pc = "purge"
    /\ \/ /\ ~jemalloc_available
          /\ UNCHANGED << now, gc_failure_count, budget >>
          /\ task' = [task EXCEPT !.pc = "settle"]
       \/ /\ jemalloc_available
          /\ gc_failure_count' = 0
          /\ task' = [task EXCEPT !.result.gc_executed = TRUE, !.pc = "settle"]
          /\ UNCHANGED << now, budget >>
       \/ /\ jemalloc_available
          /\ CanFault
          /\ now' = now
          /\ gc_failure_count' = gc_failure_count + 1
          /\ task' = [task EXCEPT !.pc = "settle"]
          /\ budget' = Faulted
       \/ /\ jemalloc_available
          /\ CanFault
          /\ CanFinish(from_secs(PurgeTimeoutSecs))
          /\ now' = now + from_secs(PurgeTimeoutSecs)
          /\ gc_failure_count' = gc_failure_count + 1
          /\ task' = [task EXCEPT !.pc = "settle"]
          /\ budget' = Faulted
    /\ UNCHANGED << Fixed, last_gc_time, memory_pressure, monitor_state,
                    performance_stats, memory_history, system_memory_history, obs >>

\* the 200 ms settle delay, then the usage_after query
Settle ==
    /\ task.pc = "settle"
    /\ CanFinish(SettleDelayMs)
    /\ now' = now + SettleDelayMs
    /\ task' = [task EXCEPT !.pc = "query", !.site = "after"]
    /\ UNCHANGED << Fixed, last_gc_time, memory_pressure, gc_failure_count,
                    monitor_state, performance_stats, memory_history,
                    system_memory_history, obs, budget >>

\* update_gc_timestamp_and_stats, critical section on last_gc_time
StampGc ==
    /\ task.pc = "stamp_gc"
    /\ last_gc_time' = now
    /\ task' = [task EXCEPT !.timestamp = now, !.pc = "stamp_state"]
    /\ UNCHANGED << Fixed, now, memory_pressure, gc_failure_count, monitor_state,
                    performance_stats, memory_history, system_memory_history,
                    obs, budget >>

\* trigger_global_release returns Ok(result); check_and_release_if_needed
\* wraps it in Ok(Some(result))
release_return(t) ==
    [t EXCEPT !.release_ret = "Ok",
              !.ret = IF t.fn = "check" THEN "Some" ELSE "Ok",
              !.pc = ReturnPc(t)]

\* update_gc_timestamp_and_stats, critical section on monitor_state; the
\* release is complete and its result is returned
StampState ==
    /\ task.pc = "stamp_state"
    /\ ~StateLockedByReader
    /\ monitor_state' = release_stats_update(monitor_state, task.timestamp, task.result)
    /\ obs' = [obs EXCEPT !.completed = @ + 1,
                          !.freed_sum = @ + task.result.memory_freed_mb,
                          !.last_completion = task.timestamp,
                          !.via_check = (task.fn = "check")]
    /\ task' = release_return(task)
    /\ UNCHANGED << Fixed, now, last_gc_time, memory_pressure, gc_failure_count,
                    performance_stats, memory_history, system_memory_history,
                    budget >>

(***************************************************************************)
(* Entering and leaving a call                                             *)
(***************************************************************************)

\* the locals of a fresh call of fn, entered at position pc
BeginCall(t, fn, pc, site) ==
    [t EXCEPT !.fn = fn, !.pc = pc, !.site = site,
              !.current_memory = 0, !.memory_before = 0, !.memory_after = 0,
              !.result = EmptyResult, !.timestamp = 0,
              !.ret = "Pending", !.release_ret = "Pending"]

\* the locals are dropped when the caller is done with the returned value
EndCall(t, pc) == BeginCall(t, "none", pc, "none")

\* what is observed when a call starts at instant t0
ObserveCall(o, t0, entered) ==
    [o EXCEPT !.call_start = t0, !.rc_at_start = monitor_state.release_count,
              !.completion_at_start = o.last_completion,
              !.via_check_at_start = o.via_check,
              !.gate_time = NoInstant, !.entered = entered,
              !.cache_failed = FALSE]

(***************************************************************************)
(* start_monitoring: the spawned loop                                      *)
(***************************************************************************)

\* start_monitoring, called once right after construction (main)
StartMonitoring ==
    /\ task.pc = "idle"
    /\ task.mode = "direct"
    /\ now = start_time
    /\ obs.call_start = NoInstant
    /\ budget.cycles > 0
    /\ task' = [task EXCEPT !.mode = "loop", !.pc = "adjust",
                            !.consecutive_failures = 0,
                            !.last_successful_check = now,
                            !.current_interval = config.check_interval_secs,
                            !.last_interval_adjustment = now]
    /\ obs' = [obs EXCEPT !.interval_set_at = now]
    /\ UNCHANGED << Fixed, now, last_gc_time, memory_pressure, gc_failure_count,
                    monitor_state, performance_stats, memory_history,
                    system_memory_history, budget >>

\* head of the loop: calculate_adaptive_interval and, when the interval
\* changes, the statistics and the adjustment instant
AdjustInterval ==
    /\ task.pc = "adjust"
    /\ budget.cycles > 0
    /\ LET adjusted == calculate_adaptive_interval(
                           task.current_interval, task.consecutive_failures,
                           task.last_interval_adjustment, memory_pressure,
                           config.check_interval_secs, now)
       IN  /\ obs' = IF adjusted # task.current_interval
                     THEN [obs EXCEPT !.returned_interval = adjusted,
                                      !.interval_set_at = now,
                                      !.interval_changes = @ + 1]
                     ELSE [obs EXCEPT !.returned_interval = adjusted]
           /\ IF adjusted # task.current_interval
              THEN /\ task' = [task EXCEPT !.current_interval = adjusted,
                                           !.last_interval_adjustment = now,
                                           !.pc = "sleep"]
                   /\ performance_stats' =
                          [performance_stats EXCEPT
                               !.interval_adjustments = @ + 1,
                               !.current_dynamic_interval = adjusted]
              ELSE /\ task' = [task EXCEPT !.pc = "sleep"]
                   /\ UNCHANGED performance_stats
    /\ UNCHANGED << Fixed, now, last_gc_time, memory_pressure, gc_failure_count,
                    monitor_state, memory_history, system_memory_history, budget >>

\* sleep(current_interval); update_monitoring_cycle_stats; the cycle's
\* check_and_release_if_needed starts under its 30 s timeout
Sleep ==
    /\ task.pc = "sleep"
    /\ now' = now + from_secs(task.current_interval)
    /\ performance_stats' = [performance_stats EXCEPT !.monitoring_cycles = @ + 1]
    /\ task' = [BeginCall(task, "check", "query", "check") EXCEPT
                    !.cycle_start = now',
                    !.deadline = now' + from_secs(CycleTimeoutSecs)]
    /\ obs' = [ObserveCall(obs, now', FALSE) EXCEPT !.slept = task.current_interval]
    /\ budget' = [budget EXCEPT !.cycles = @ - 1]
    /\ UNCHANGED << Fixed, last_gc_time, memory_pressure, gc_failure_count,
                    monitor_state, memory_history, system_memory_history >>

\* the longest a pending step at position pc can stay pending on its own
\* (-1: unbounded, the OS-level query has no timeout; -2: it never waits)
MaxPending(pc) ==
    CASE pc = "query" -> IF jemalloc_available THEN from_secs(ProbeTimeoutSecs) ELSE -2
      [] pc = "fallback" -> -1
      [] pc = "cache" -> from_secs(CacheTimeoutSecs)
      [] pc = "purge" -> IF jemalloc_available THEN from_secs(PurgeTimeoutSecs) ELSE -2
      [] pc = "settle" -> SettleDelayMs
      [] OTHER -> -2

\* the settle delay cannot end before the cycle's timeout
SettleCutShort == task.pc = "settle" /\ ~CanFinish(SettleDelayMs)

\* the 30 s timeout fires: the call is dropped where it waits
CycleTimeout ==
    /\ task.mode = "loop"
    /\ CanFault \/ SettleCutShort
    /\ MaxPending(task.pc) # -2
    /\ MaxPending(task.pc) = -1 \/ CanExpire(MaxPending(task.pc))
    /\ now' = task.deadline
    /\ task' = [task EXCEPT !.ret = "Timeout", !.pc = "cycle_done"]
    /\ budget' = IF SettleCutShort THEN budget ELSE Faulted
    /\ UNCHANGED << Fixed, last_gc_time, memory_pressure, gc_failure_count,
                    monitor_state, performance_stats, memory_history,
                    system_memory_history, obs >>

cycle_done_keep_on_release(t, instant) ==
    IF t.ret \in {"Some", "None"}
    THEN [EndCall(t, "adjust") EXCEPT
              !.consecutive_failures = IF t.ret = "Some" THEN @ ELSE 0,
              !.last_successful_check = instant,
              !.deadline = NoDeadline]
    ELSE [EndCall(t, "adjust") EXCEPT !.consecutive_failures = @ + 1,
                                      !.deadline = NoDeadline]

cycle_done_stop_on_failure(t, instant) ==
    IF t.ret \in {"Some", "None"}
    THEN [EndCall(t, "adjust") EXCEPT !.consecutive_failures = 0,
                                      !.last_successful_check = instant,
                                      !.deadline = NoDeadline]
    ELSE [EndCall(t, "stopped") EXCEPT !.consecutive_failures = @ + 1,
                                       !.deadline = NoDeadline]

\* the match on the cycle's outcome: the failure counter, and on to the next
\* iteration in every arm
cycle_done(t, instant) ==
    IF t.ret \in {"Some", "None"}
    THEN [EndCall(t, "adjust") EXCEPT !.consecutive_failures = 0,
                                      !.last_successful_check = instant,
                                      !.deadline = NoDeadline]
    ELSE [EndCall(t, "adjust") EXCEPT !.consecutive_failures = @ + 1,
                                      !.deadline = NoDeadline]

\* update_monitoring_stats on the integer fields
update_monitoring_stats(stats, duration_ms) ==
    [stats EXCEPT !.max_monitoring_time_ms = Max(@, duration_ms)]

\* observer: the cycles that ended in an error or in the timeout since the
\* last cycle that returned Ok, and the cycles that returned Ok
ObserveOutcome(o, ret) ==
    IF ret \in {"Err", "Timeout"}
    THEN [o EXCEPT !.failed_run = @ + 1]
    ELSE [o EXCEPT !.failed_run = 0, !.succeeded = @ + 1]

\* end of a cycle
CycleDone ==
    /\ task.pc = "cycle_done"
    /\ task' = cycle_done(task, now)
    /\ performance_stats' =
           update_monitoring_stats(performance_stats, now - task.cycle_start)
    /\ obs' = ObserveOutcome(obs, task.ret)
    /\ UNCHANGED << Fixed, now, last_gc_time, memory_pressure, gc_failure_count,
                    monitor_state, memory_history, system_memory_history,
                    budget >>

(***************************************************************************)
(* Direct callers of the public methods (as the unit tests call them)      *)
(***************************************************************************)

CanCall == task.mode = "direct" /\ task.pc = "idle" /\ budget.calls > 0

Called == [budget EXCEPT !.calls = @ - 1]

\* check_and_release_if_needed().await, with no timeout around it
CallCheckAndRelease ==
    /\ CanCall
    /\ task' = [BeginCall(task, "check", "query", "check") EXCEPT !.waited = FALSE]
    /\ obs' = ObserveCall(obs, now, FALSE)
    /\ budget' = Called
    /\ UNCHANGED << Fixed, now, last_gc_time, memory_pressure, gc_failure_count,
                    monitor_state, performance_stats, memory_history,
                    system_memory_history >>

\* trigger_global_release().await, not gated
CallTriggerGlobalRelease ==
    /\ CanCall
    /\ task' = [BeginCall(task, "trigger", "query", "before") EXCEPT !.waited = FALSE]
    /\ obs' = ObserveCall(obs, now, TRUE)
    /\ budget' = Called
    /\ UNCHANGED << Fixed, now, last_gc_time, memory_pressure, gc_failure_count,
                    monitor_state, performance_stats, memory_history,
                    system_memory_history >>

\* update_memory_pressure(current_mb).await
CallUpdateMemoryPressure ==
    /\ CanCall
    /\ \E u \in DirectUsages :
          task' = [BeginCall(task, "update", "pressure_lock", "check") EXCEPT
                       !.waited = FALSE, !.current_memory = u]
    /\ obs' = ObserveCall(obs, now, FALSE)
    /\ budget' = Called
    /\ UNCHANGED << Fixed, now, last_gc_time, memory_pressure, gc_failure_count,
                    monitor_state, performance_stats, memory_history,
                    system_memory_history >>

\* the caller lets time pass between two calls
Wait ==
    /\ CanCall
    /\ ~task.waited
    /\ \E d \in DirectWaits : now' = now + d
    /\ task' = [task EXCEPT !.waited = TRUE]
    /\ UNCHANGED << Fixed, last_gc_time, memory_pressure, gc_failure_count,
                    monitor_state, performance_stats, memory_history,
                    system_memory_history, obs, budget >>

\* the caller has the returned value and drops it
DirectReturn ==
    /\ task.mode = "direct"
    /\ task.pc = "returned"
    /\ task' = EndCall(task, "idle")
    /\ UNCHANGED << Fixed, now, last_gc_time, memory_pressure, gc_failure_count,
                    monitor_state, performance_stats, memory_history,
                    system_memory_history, obs, budget >>

(***************************************************************************)
(* Specifications                                                          *)
(***************************************************************************)

CallSteps ==
    \/ ProbeReturns
    \/ ProbeFallsThrough
    \/ ProbeUnavailable
    \/ FallbackReturns
    \/ FallbackFails
    \/ PressureLock
    \/ StateLock
    \/ Gate
    \/ CacheCleanup
    \/ Purge
    \/ Settle
    \/ StampGc
    \/ StampState

LoopSteps ==
    \/ StartMonitoring
    \/ AdjustInterval
    \/ Sleep
    \/ CycleTimeout
    \/ CycleDone

DirectSteps ==
    \/ CallCheckAndRelease
    \/ CallTriggerGlobalRelease
    \/ CallUpdateMemoryPressure
    \/ Wait
    \/ DirectReturn

Next == LoopSteps \/ CallSteps \/ DirectSteps

\* the monitor started by main, or a sequence of direct calls
Spec == Init /\ [][Next]_vars

(***************************************************************************)
(* The pure functions applied to drawn inputs                              *)
(***************************************************************************)

NoBudget == [cycles |-> 0, calls |-> 0, faults |-> 0]

FnThresholds == { 1, 3, 10, 500 }
FnCooldowns == { 1, 2, 30 }
FnElapsedMs == { 0, 500, 999, 1000, 1999, 2000, 29999, 30000, 31000 }
FnBaseIntervals == { 1, 3, 7, 30, 45, 200, 400 }
FnCurrentIntervals == { 1, 5, 22, 30, 45, 300, 400 }
FnAdjustElapsedMs == { 0, 59999, 60000, 90000 }
FnInstants == { 0, 700 }

\* calculate_pressure_level(current_mb, threshold_mb)
ApplyPressureLevel ==
    /\ call = NoCall
    /\ budget = NoBudget /\ task = InitTask
    /\ \E current_mb \in 0..MaxUsageMb, threshold_mb \in FnThresholds :
          call' = [ fn |-> "calculate_pressure_level",
                    current_mb |-> current_mb, threshold_mb |-> threshold_mb,
                    result |-> calculate_pressure_level(current_mb, threshold_mb) ]
    /\ UNCHANGED << config, jemalloc_available, now, start_time, last_gc_time,
                    memory_pressure, gc_failure_count, monitor_state,
                    performance_stats, memory_history, system_memory_history,
                    task, obs, budget >>

\* should_trigger_release(current_mb) with last_gc_time = last_gc at instant t
ApplyShouldTrigger ==
    /\ call = NoCall
    /\ budget = NoBudget /\ task = InitTask
    /\ \E threshold_mb \in FnThresholds, cooldown \in FnCooldowns,
          delta \in {-1, 0, 1}, last_gc \in FnInstants, elapsed \in FnElapsedMs :
          LET cfg == [config EXCEPT !.threshold_mb = threshold_mb,
                                    !.gc_cooldown_secs = cooldown]
              current_mb == threshold_mb + delta
          IN  call' = [ fn |-> "should_trigger_release",
                        current_mb |-> current_mb, cfg |-> cfg,
                        last_gc |-> last_gc, t |-> last_gc + elapsed,
                        result |-> should_trigger_release(current_mb, cfg, last_gc,
                                                          last_gc + elapsed) ]
    /\ UNCHANGED << config, jemalloc_available, now, start_time, last_gc_time,
                    memory_pressure, gc_failure_count, monitor_state,
                    performance_stats, memory_history, system_memory_history,
                    task, obs, budget >>

\* calculate_adaptive_interval at each pressure level, the other inputs equal
ApplyAdaptiveInterval ==
    /\ call = NoCall
    /\ budget = NoBudget /\ task = InitTask
    /\ \E base_interval \in FnBaseIntervals, current_interval \in FnCurrentIntervals,
          consecutive_failures \in 0..MaxFailures, last_adjustment \in FnInstants,
          elapsed \in FnAdjustElapsedMs :
          call' = [ fn |-> "calculate_adaptive_interval",
                    base_interval |-> base_interval,
                    current_interval |-> current_interval,
                    consecutive_failures |-> consecutive_failures,
                    last_adjustment |-> last_adjustment,
                    t |-> last_adjustment + elapsed,
                    result |-> [ pressure \in Levels |->
                                   calculate_adaptive_interval(
                                       current_interval, consecutive_failures,
                                       last_adjustment, pressure, base_interval,
                                       last_adjustment + elapsed) ] ]
    /\ UNCHANGED << config, jemalloc_available, now, start_time, last_gc_time,
                    memory_pressure, gc_failure_count, monitor_state,
                    performance_stats, memory_history, system_memory_history,
                    task, obs, budget >>

\* calculate_adaptive_interval at each failure count, the other inputs equal
ApplyAdaptiveIntervalByFailures ==
    /\ call = NoCall
    /\ budget = NoBudget /\ task = InitTask
    /\ \E base_interval \in FnBaseIntervals, current_interval \in FnCurrentIntervals,
          pressure \in Levels, last_adjustment \in FnInstants,
          elapsed \in FnAdjustElapsedMs :
          call' = [ fn |-> "calculate_adaptive_interval_by_failures",
                    base_interval |-> base_interval,
                    current_interval |-> current_interval,
                    pressure |-> pressure,
                    last_adjustment |-> last_adjustment,
                    t |-> last_adjustment + elapsed,
                    result |-> [ consecutive_failures \in 0..MaxFailures |->
                                   calculate_adaptive_interval(
                                       current_interval, consecutive_failures,
                                       last_adjustment, pressure, base_interval,
                                       last_adjustment + elapsed) ] ]
    /\ UNCHANGED << config, jemalloc_available, now, start_time, last_gc_time,
                    memory_pressure, gc_failure_count, monitor_state,
                    performance_stats, memory_history, system_memory_history,
                    task, obs, budget >>

FnInit ==
    New([threshold_mb |-> 500, check_interval_secs |-> 30, gc_cooldown_secs |-> 30],
        TRUE, NoBudget)

FnNext ==
    \/ ApplyPressureLevel
    \/ ApplyShouldTrigger
    \/ ApplyAdaptiveInterval
    \/ ApplyAdaptiveIntervalByFailures

\* the pure functions on drawn inputs
FnSpec == FnInit /\ [][FnNext]_vars

ReleaseInit ==
    \E cfg \in Configs, avail \in BOOLEAN :
        New(cfg, avail,
            [cycles |-> 0, calls |-> 1, faults |-> MaxReleaseFaults])

ReleaseNext == CallSteps \/ DirectSteps

\* one direct call in which every step may fail or be slow
ReleaseSpec == ReleaseInit /\ [][ReleaseNext]_vars

LoopInit ==
    \E cfg \in Configs, avail \in BOOLEAN :
        New(cfg, avail, [cycles |-> MaxCycles, calls |-> 0, faults |-> MaxFaults])

LoopNext == LoopSteps \/ CallSteps

LiveInit ==
    \E cfg \in Configs, avail \in BOOLEAN :
        New(cfg, avail,
            [cycles |-> MaxLiveCycles, calls |-> 0, faults |-> MaxLiveFaults])

\* the monitor loop alone, its task scheduled whenever it can take a step:
\* the runtime polls a spawned task that is ready, and every wait of the
\* cycle either ends or is cut by the 30 s timeout
LiveSpec == LiveInit /\ [][LoopNext]_vars /\ WF_vars(LoopNext)

FailureInit ==
    \E cfg \in Configs, avail \in BOOLEAN :
        New(cfg, avail,
            [cycles |-> MaxRunCycles, calls |-> 0, faults |-> MaxRunFaults])

\* the monitor loop with cycles that fail one after the other
FailureSpec == FailureInit /\ [][LoopNext]_vars

IntervalInit == LoopInit \/ FnInit

IntervalNext == LoopNext \/ ApplyAdaptiveInterval

\* calculate_adaptive_interval on drawn inputs, and the loop that calls it
IntervalSpec == IntervalInit /\ [][IntervalNext]_vars

PaceInit ==
    \/ \E cfg \in Configs, avail \in BOOLEAN :
           New(cfg, avail, [cycles |-> MaxPaceCycles, calls |-> 0, faults |-> 1])
    \/ FnInit

\* calculate_adaptive_interval on drawn inputs, and a loop long enough to
\* change its interval more than once
PaceSpec == PaceInit /\ [][IntervalNext]_vars

HistoryLens == { 0, 3, 9, 10, 20, 204, 999, 1000 }
HistoryStepsMs == { 10, 250, 1000, 3000 }
HistorySlopes == { -1, 0, 1, 5 }
RecordGapsMs == { 0, 10, 650000, 3600000 }
RecordUsages == { 50 }

\* n samples recorded every step ms, the usage changing by slope per sample
\* (100, 105, ..., 195 for n = 20 and slope 5)
RecordedHistory(n, step, slope) ==
    [ i \in 1..n |-> << i * step, (IF slope < 0 THEN 1100 ELSE 100) + (i - 1) * slope >> ]

\* a manager whose history holds samples recorded at a regular pace, the
\* last of them just now
HistoryInit ==
    \E n \in HistoryLens, step \in HistoryStepsMs, slope \in HistorySlopes :
        /\ n * slope <= 1100
        /\ config = [threshold_mb |-> 500, check_interval_secs |-> 30,
                      gc_cooldown_secs |-> 30]
        /\ jemalloc_available = TRUE
        /\ now = n * step
        /\ start_time = 0
        /\ last_gc_time = 0
        /\ memory_pressure = "Low"
        /\ gc_failure_count = 0
        /\ monitor_state = [ current_usage_mb |-> 0, peak_usage_mb |-> 0,
                             pressure_level |-> "Low", last_release_time |-> NoInstant,
                             release_count |-> 0, total_freed_mb |-> 0 ]
        /\ performance_stats = PerformanceStatsDefault
        /\ memory_history = RecordedHistory(n, step, slope)
        /\ system_memory_history = << >>
        /\ task = InitTask
        /\ obs = InitObs
        /\ budget = [cycles |-> 0, calls |-> MaxRecords, faults |-> 0]
        /\ call = NoCall

HistoryUnchanged ==
    UNCHANGED << config, jemalloc_available, start_time, last_gc_time,
                 memory_pressure, gc_failure_count, monitor_state,
                 performance_stats, task, obs >>

\* update_memory_history(memory_mb) some time after the last sample
RecordSample ==
    /\ call.fn \in {"none", "update_memory_history"}
    /\ budget.calls > 0
    /\ \E gap \in RecordGapsMs, memory_mb \in RecordUsages :
          /\ now' = now + gap
          /\ memory_history' = update_memory_history(memory_history, now', memory_mb)
          /\ system_memory_history' =
                 update_system_memory_history(system_memory_history, memory_mb)
          /\ call' = [ fn |-> "update_memory_history", before |-> memory_history,
                       t |-> now', memory_mb |-> memory_mb ]
    /\ budget' = Called
    /\ HistoryUnchanged

\* get_memory_trend() on the history as it is
ApplyTrend ==
    /\ call.fn \in {"none", "update_memory_history"}
    /\ call' = [ fn |-> "get_memory_trend", result |-> get_memory_trend(memory_history) ]
    /\ UNCHANGED << now, memory_history, system_memory_history, budget >>
    /\ HistoryUnchanged

\* calculate_average_memory_usage() on the history as it is
ApplyAverage ==
    /\ call.fn \in {"none", "update_memory_history"}
    /\ call' = [ fn |-> "calculate_average_memory_usage",
                 result |-> calculate_average_memory_usage(memory_history) ]
    /\ UNCHANGED << now, memory_history, system_memory_history, budget >>
    /\ HistoryUnchanged

HistoryNext == RecordSample \/ ApplyTrend \/ ApplyAverage

\* the history operations on drawn histories
HistorySpec == HistoryInit /\ [][HistoryNext]_vars

(***************************************************************************)
(* Direct calls whose bounded waits end                                    *)
(***************************************************************************)

\* the steps that end on their own: a wait under a timeout or a sleep, a lock
\* no one else holds, the caller's own moves. The OS-level query is not among
\* them: spawn_blocking(..).await has no timeout around it
BoundedSteps ==
    \/ ProbeReturns
    \/ ProbeFallsThrough
    \/ ProbeUnavailable
    \/ PressureLock
    \/ StateLock
    \/ Gate
    \/ CacheCleanup
    \/ Purge
    \/ Settle
    \/ StampGc
    \/ StampState
    \/ DirectSteps

QueryInit ==
    \E cfg \in Configs, avail \in BOOLEAN :
        New(cfg, avail, [cycles |-> 0, calls |-> MaxCalls, faults |-> MaxFaults])

\* direct callers, every bounded step taken in the end
QuerySpec == QueryInit /\ [][ReleaseNext]_vars /\ WF_vars(BoundedSteps)

(***************************************************************************)
(* Two concurrent callers of the public methods on one manager             *)
(***************************************************************************)

\* the second caller, parked at an await point with its locals
Parked(t) == [fn |-> "parked", task |-> t]

\* the executor polls the other caller: every position of a call is an await
\* (a lock, a blocking task, a sleep) at which the running one can yield
Switch ==
    /\ call.fn = "parked"
    /\ task' = call.task
    /\ call' = Parked(task)
    /\ UNCHANGED << config, jemalloc_available, now, start_time, last_gc_time,
                    memory_pressure, gc_failure_count, monitor_state,
                    performance_stats, memory_history, system_memory_history,
                    obs, budget >>

RaceInit ==
    /\ \E cfg \in Configs, avail \in BOOLEAN :
           Constructed(cfg, avail,
                       [cycles |-> 0, calls |-> MaxCalls, faults |-> MaxFaults])
    /\ call = Parked(InitTask)

RaceNext ==
    \/ CallSteps
    \/ CallCheckAndRelease
    \/ Wait
    \/ DirectReturn
    \/ Switch

\* two callers of check_and_release_if_needed on one manager, interleaved at
\* their awaits
RaceSpec == RaceInit /\ [][RaceNext]_vars

(***************************************************************************)
(* The lock protocol: what each method locks, unlocks and awaits, in order *)
(***************************************************************************)

Locks ==
    { "last_gc_time", "memory_pressure", "gc_failure_count", "monitor_state",
      "performance_stats", "memory_history", "system_memory_history" }

Lock(l) == << << "lock", l >> >>
Unlock(l) == << << "unlock", l >> >>
Await(x) == << << "await", x >> >>

\* `let guard = m.lock().await; ...` with no await before the guard is dropped
Section(l) == Lock(l) \o Unlock(l)

get_memory_pressure_locks == Section("memory_pressure")

should_trigger_release_locks == Section("last_gc_time")

update_memory_query_stats_locks == Section("performance_stats")

update_system_memory_history_locks == Section("system_memory_history")

\* the guard of memory_history is alive during update_system_memory_history
update_memory_history_locks ==
    Lock("memory_history") \o update_system_memory_history_locks
        \o Unlock("memory_history")

\* get_current_memory_usage by the way it ends: the probe answers, the
\* OS-level query answers, the OS-level query fails
QueryPaths == { "probe", "fallback", "failure" }

get_current_memory_usage_locks(path) ==
    CASE path = "probe" -> Await("probe")
      [] path = "fallback" ->
             Await("query") \o update_memory_query_stats_locks
                 \o update_memory_history_locks
      [] path = "failure" -> Await("query") \o update_memory_query_stats_locks

safe_update_memory_pressure_locks ==
    Section("memory_pressure") \o Section("monitor_state")

update_gc_timestamp_and_stats_locks ==
    Section("last_gc_time") \o Section("monitor_state")

\* a failed snapshot is replaced by a value: the pipeline goes on
trigger_global_release_locks(path, purge) ==
    get_current_memory_usage_locks(path)
        \o Await("cleanup_cache")
        \o (IF purge THEN Await("purge") \o Section("gc_failure_count") ELSE << >>)
        \o Await("sleep")
        \o get_current_memory_usage_locks(path)
        \o safe_update_memory_pressure_locks
        \o update_gc_timestamp_and_stats_locks

check_and_release_if_needed_locks(path, release, purge) ==
    IF path = "failure"
    THEN get_current_memory_usage_locks(path)
    ELSE get_current_memory_usage_locks(path)
             \o safe_update_memory_pressure_locks
             \o should_trigger_release_locks
             \o (IF release THEN trigger_global_release_locks(path, purge) ELSE << >>)

\* one iteration of the loop of start_monitoring
monitor_iteration_locks(path, release, purge, adjusted) ==
    get_memory_pressure_locks
        \o (IF adjusted THEN Section("performance_stats") ELSE << >>)
        \o Await("sleep")
        \o Section("performance_stats")
        \o check_and_release_if_needed_locks(path, release, purge)
        \o Section("performance_stats")

get_memory_status_locks(path) ==
    IF path = "failure"
    THEN get_current_memory_usage_locks(path)
    ELSE get_current_memory_usage_locks(path)
             \o get_memory_pressure_locks
             \o Section("last_gc_time")

get_monitor_state_locks == Section("monitor_state")

get_system_memory_history_locks_nested ==
    Lock("system_memory_history") \o Section("memory_history")
        \o Unlock("system_memory_history")

get_system_memory_history_locks == Section("system_memory_history")

get_performance_stats_locks == Section("performance_stats")

calculate_average_memory_usage_locks == Section("memory_history")

get_memory_trend_locks == Section("memory_history")

generate_memory_report_locks ==
    get_monitor_state_locks \o get_performance_stats_locks
        \o calculate_average_memory_usage_locks

\* the monitor task and two request handlers
LockTasks == { "monitor", "reader1", "reader2" }

\* the ways a usage query can end on this build
PathsHere == IF jemalloc_available THEN QueryPaths ELSE QueryPaths \ {"probe"}

\* the operations a task may run
Operations(p) ==
    IF p = "monitor"
    THEN { monitor_iteration_locks(path, release, jemalloc_available, adjusted) :
               path \in PathsHere, release \in BOOLEAN, adjusted \in BOOLEAN }
    ELSE { get_memory_status_locks(path) : path \in PathsHere }
             \cup { get_monitor_state_locks, get_system_memory_history_locks,
                    get_performance_stats_locks,
                    calculate_average_memory_usage_locks, get_memory_trend_locks,
                    generate_memory_report_locks }

\* task p has an operation in progress
Working(p) == call.script[p] # << >>

\* the lock l is held by some task
Held(l) == \E q \in LockTasks : \E i \in 1..Len(call.holds[q]) : call.holds[q][i] = l

\* task p is not waiting for a lock someone holds
CanStep(p) ==
    /\ Working(p)
    /\ Head(call.script[p])[1] = "lock" => ~Held(Head(call.script[p])[2])

LockFrame ==
    UNCHANGED << config, jemalloc_available, now, start_time, last_gc_time,
                 memory_pressure, gc_failure_count, monitor_state,
                 performance_stats, memory_history, system_memory_history,
                 task, obs, budget >>

\* a task starts its next operation
LockBegin ==
    /\ call.fn = "locks"
    /\ \E p \in LockTasks :
          /\ ~Working(p)
          /\ call.rounds[p] > 0
          /\ \E op \in Operations(p) :
                call' = [call EXCEPT !.script[p] = op, !.rounds[p] = @ - 1]
    /\ LockFrame

\* m.lock().await returns the guard: the mutex is free
LockAcquire ==
    /\ call.fn = "locks"
    /\ \E p \in LockTasks :
          /\ Working(p)
          /\ Head(call.script[p])[1] = "lock"
          /\ ~Held(Head(call.script[p])[2])
          /\ call' = [call EXCEPT
                          !.holds[p] = Append(@, Head(call.script[p])[2]),
                          !.script[p] = Tail(@)]
    /\ LockFrame

\* the guard is dropped
LockRelease ==
    /\ call.fn = "locks"
    /\ \E p \in LockTasks :
          /\ Working(p)
          /\ Head(call.script[p])[1] = "unlock"
          /\ call' = [call EXCEPT
                          !.holds[p] = SelectSeq(@, LAMBDA l : l # Head(call.script[p])[2]),
                          !.script[p] = Tail(@)]
    /\ LockFrame

\* a usage query, a sleep, the cache cleanup or the purge ends
AwaitEnds ==
    /\ call.fn = "locks"
    /\ \E p \in LockTasks :
          /\ Working(p)
          /\ Head(call.script[p])[1] = "await"
          /\ call' = [call EXCEPT !.script[p] = Tail(@)]
    /\ LockFrame

LockInit ==
    /\ \E avail \in BOOLEAN :
          Constructed([threshold_mb |-> 500, check_interval_secs |-> 30,
                       gc_cooldown_secs |-> 30], avail, NoBudget)
    /\ call = [ fn |-> "locks",
                script |-> [p \in LockTasks |-> << >>],
                holds |-> [p \in LockTasks |-> << >>],
                rounds |-> [p \in LockTasks |-> MaxLockRounds] ]

LockNext == LockBegin \/ LockAcquire \/ LockRelease \/ AwaitEnds

\* the monitor task and concurrent accessor calls, at the level of their locks
LockSpec == LockInit /\ [][LockNext]_vars

(***************************************************************************)
(* Construction from any configuration the loader can deliver              *)
(***************************************************************************)

\* configurations with one field set to zero in the configuration file
ZeroConfigs ==
    { [threshold_mb |-> 0, check_interval_secs |-> 30, gc_cooldown_secs |-> 30],
      [threshold_mb |-> 10, check_interval_secs |-> 0, gc_cooldown_secs |-> 30],
      [threshold_mb |-> 10, check_interval_secs |-> 30, gc_cooldown_secs |-> 0] }

\* MemoryManager::new stores the configuration as given
AnyConfigInit ==
    \E cfg \in Configs \cup ZeroConfigs, avail \in BOOLEAN :
        New(cfg, avail,
            [cycles |-> MaxLiveCycles, calls |-> 0, faults |-> MaxLiveFaults])

\* the monitor loop of a manager built from any configuration
AnyConfigSpec == AnyConfigInit /\ [][LoopNext]_vars

(***************************************************************************)
(* External readers: the accessors called by the HTTP routes, concurrently *)
(* with the monitor task                                                   *)
(***************************************************************************)

\* the accessors that take a lock, clone or compute, and return
PlainAccessors ==
    { "get_performance_stats", "calculate_average_memory_usage",
      "get_memory_trend", "generate_memory_report" }

\* what a reader's step leaves alone besides the shared statistics
ReaderFrame ==
    UNCHANGED << config, jemalloc_available, start_time, last_gc_time,
                 memory_pressure, gc_failure_count, monitor_state, task, obs >>

\* a route calls get_memory_status(): its get_current_memory_usage starts
ReaderStatusBegin ==
    /\ call = NoCall
    /\ budget.calls > 0
    /\ call' = [fn |-> "get_memory_status", pc |-> "query"]
    /\ budget' = Called
    /\ UNCHANGED << now, performance_stats, memory_history, system_memory_history >>
    /\ ReaderFrame

\* the reader's allocator probe answers with at least 1 MB: nothing recorded
ReaderProbeReturns ==
    /\ call.fn = "get_memory_status" /\ call.pc = "query"
    /\ jemalloc_available
    /\ \E bytes \in ProbeBytes :
          /\ bytes > 0
          /\ bytes_to_mb(bytes) > 0
          /\ call' = [fn |-> call.fn, pc |-> "read", current_mb |-> bytes_to_mb(bytes)]
    /\ UNCHANGED << now, performance_stats, memory_history, system_memory_history,
                    budget >>
    /\ ReaderFrame

\* the reader's probe is unavailable, or reports nothing usable
ReaderProbeFallsThrough ==
    /\ call.fn = "get_memory_status" /\ call.pc = "query"
    /\ \/ ~jemalloc_available /\ budget' = budget
       \/ jemalloc_available /\ CanFault /\ budget' = Faulted
    /\ call' = [call EXCEPT !.pc = "fallback"]
    /\ UNCHANGED << now, performance_stats, memory_history, system_memory_history >>
    /\ ReaderFrame

\* the reader's OS-level query succeeds: counted and recorded in both
\* histories, as in the monitor's own queries
ReaderFallbackReturns ==
    /\ call.fn = "get_memory_status" /\ call.pc = "fallback"
    /\ \E bytes \in FallbackBytes :
          /\ performance_stats' = update_memory_query_stats(performance_stats, TRUE)
          /\ memory_history' =
                 update_memory_history(memory_history, now, bytes_to_mb(bytes))
          /\ system_memory_history' =
                 update_system_memory_history(system_memory_history, bytes_to_mb(bytes))
          /\ call' = [fn |-> call.fn, pc |-> "read", current_mb |-> bytes_to_mb(bytes)]
    /\ UNCHANGED << now, budget >>
    /\ ReaderFrame

\* the reader's OS-level query fails: counted, Err returned to the route
ReaderFallbackFails ==
    /\ call.fn = "get_memory_status" /\ call.pc = "fallback"
    /\ CanFault
    /\ performance_stats' = update_memory_query_stats(performance_stats, FALSE)
    /\ call' = NoCall
    /\ budget' = Faulted
    /\ UNCHANGED << now, memory_history, system_memory_history >>
    /\ ReaderFrame

memory_status_reclassified(current_mb, cfg, pressure, last_gc, t) ==
    [ current_mb |-> current_mb,
      threshold_mb |-> cfg.threshold_mb,
      pressure |-> calculate_pressure_level(current_mb, cfg.threshold_mb),
      time_since_last_gc_secs |-> as_secs(t - last_gc) ]

\* the MemoryStatus of get_memory_status: its own sample, the stored pressure
memory_status(current_mb, cfg, pressure, last_gc, t) ==
    [ current_mb |-> current_mb,
      threshold_mb |-> cfg.threshold_mb,
      pressure |-> pressure,
      time_since_last_gc_secs |-> as_secs(t - last_gc) ]

\* get_memory_status reads memory_pressure and last_gc_time and returns the
\* MemoryStatus built from them and from its own sample
ReaderStatusReturns ==
    /\ call.fn = "get_memory_status" /\ call.pc = "read"
    /\ call' = [ fn |-> call.fn, pc |-> "returned",
                 result |-> memory_status(call.current_mb, config, memory_pressure,
                                          last_gc_time, now) ]
    /\ UNCHANGED << now, performance_stats, memory_history, system_memory_history,
                    budget >>
    /\ ReaderFrame

\* a route calls one of the plain accessors
ReaderAccessorBegin ==
    /\ call = NoCall
    /\ budget.calls > 0
    /\ \E fn \in PlainAccessors : call' = [fn |-> fn, pc |-> "read"]
    /\ budget' = Called
    /\ UNCHANGED << now, performance_stats, memory_history, system_memory_history >>
    /\ ReaderFrame

\* the accessor has read what it returns; the caller drops a MemoryStatus
ReaderAccessorReturns ==
    /\ \/ call.fn \in PlainAccessors
       \/ call.fn = "get_memory_status" /\ call.pc = "returned"
    /\ call' = NoCall
    /\ UNCHANGED << now, performance_stats, memory_history, system_memory_history,
                    budget >>
    /\ ReaderFrame

\* JoinHandle::abort(): the loop's task is dropped at the await where it is
\* pending: its sleep, a blocking call, or a lock a reader holds
Abort ==
    /\ task.mode = "loop"
    /\ \/ task.pc \in {"sleep", "query", "fallback", "cache", "purge", "settle"}
       \/ task.pc \in {"state_lock", "stamp_state"} /\ StateLockedByReader
    /\ task' = [task EXCEPT !.pc = "aborted"]
    /\ UNCHANGED << now, performance_stats, memory_history, system_memory_history,
                    budget, call >>
    /\ UNCHANGED << config, jemalloc_available, start_time, last_gc_time,
                    memory_pressure, gc_failure_count, monitor_state, obs >>

ReaderSteps ==
    \/ ReaderStatusBegin
    \/ ReaderProbeReturns
    \/ ReaderProbeFallsThrough
    \/ ReaderFallbackReturns
    \/ ReaderFallbackFails
    \/ ReaderStatusReturns
    \/ ReaderAccessorBegin
    \/ ReaderAccessorReturns

ReaderInit ==
    \E cfg \in Configs, avail \in BOOLEAN :
        New(cfg, avail,
            [cycles |-> MaxReaderCycles, calls |-> MaxReaderCalls, faults |-> MaxFaults])

ReaderNext == LoopNext \/ ReaderSteps \/ Abort

StatusInit ==
    \E cfg \in Configs, avail \in BOOLEAN :
        New(cfg, avail, [cycles |-> 1, calls |-> MaxStatusCalls, faults |-> 1])

\* one monitor cycle and external readers, interleaved
StatusSpec == StatusInit /\ [][ReaderNext]_vars

\* the monitor loop and external readers, interleaved
ReaderSpec == ReaderInit /\ [][ReaderNext]_vars

(***************************************************************************)
(* Properties                                                              *)
(***************************************************************************)

\* the call in progress, or just returned, is check_and_release_if_needed and
\* a release completed before it started
CheckAfterRelease == task.fn = "check" /\ obs.completion_at_start # NoInstant

CooldownMs == from_secs(config.gc_cooldown_secs)

\* the cooldown gate of the call has been evaluated
GateEvaluated == obs.gate_time # NoInstant

\* C1 (as amended): after a release completed at instant t, a call of
\* check_and_release_if_needed whose cooldown gate is evaluated less than
\* gc_cooldown_secs after t returns None, does not enter the release pipeline
\* and leaves release_count unchanged, whatever the usage; a call whose gate
\* is evaluated gc_cooldown_secs or more after t, with usage above the
\* threshold, enters the pipeline again.
C1_CooldownAtGate ==
    (CheckAfterRelease /\ GateEvaluated) =>
        /\ obs.gate_time - obs.completion_at_start < CooldownMs =>
               /\ ~obs.entered
               /\ task.ret = "None"
               /\ monitor_state.release_count = obs.rc_at_start
        /\ ( /\ obs.gate_time - obs.completion_at_start >= CooldownMs
             /\ task.current_memory > config.threshold_mb ) => obs.entered

\* a call above the threshold denied by the cooldown of an earlier release
C1_Witness ==
    /\ CheckAfterRelease /\ obs.via_check_at_start /\ GateEvaluated
    /\ task.current_memory > config.threshold_mb
    /\ obs.gate_time - obs.completion_at_start < CooldownMs
    /\ task.ret = "None"
    /\ task.pc \in {"cycle_done", "returned"}

\* C1 as stated: after a release completed through
\* check_and_release_if_needed, the same with the cooldown counted at the
\* instant the call is made
C1_CooldownAtCall ==
    (CheckAfterRelease /\ obs.via_check_at_start /\ GateEvaluated) =>
        /\ obs.call_start - obs.completion_at_start < CooldownMs =>
               /\ ~obs.entered
               /\ task.ret = "None"
               /\ monitor_state.release_count = obs.rc_at_start
        /\ ( /\ obs.call_start - obs.completion_at_start >= CooldownMs
             /\ task.current_memory > config.threshold_mb ) => obs.entered

\* C2: should_trigger_release is true exactly when the usage is strictly
\* above the threshold and at least gc_cooldown_secs have elapsed since the
\* last release; usage equal to the threshold, or a cooldown not yet elapsed,
\* gives false.
C2_TriggerIff ==
    call.fn = "should_trigger_release" =>
        /\ call.result <=>
               ( /\ call.current_mb > call.cfg.threshold_mb
                 /\ call.t - call.last_gc >= from_secs(call.cfg.gc_cooldown_secs) )
        /\ call.current_mb = call.cfg.threshold_mb => ~call.result
        /\ call.t - call.last_gc < from_secs(call.cfg.gc_cooldown_secs) => ~call.result

\* usage above the threshold, the cooldown one millisecond short
C2_Witness ==
    /\ call.fn = "should_trigger_release"
    /\ call.current_mb > call.cfg.threshold_mb
    /\ call.t - call.last_gc = from_secs(call.cfg.gc_cooldown_secs) - 1
    /\ ~call.result

\* C3: trigger_global_release returns Ok with a result whatever its steps
\* did: a failed or timed-out usage query, cache cleanup or allocator purge
\* is never propagated to the caller as an error.
C3_AlwaysOk ==
    /\ task.release_ret # "Err"
    /\ (obs.entered /\ task.pc = "returned") => task.release_ret = "Ok"

\* a release in which both usage queries, the cache cleanup and the purge
\* failed, returned
C3_Witness ==
    /\ obs.entered /\ task.pc = "returned" /\ task.release_ret = "Ok"
    /\ MaxReleaseFaults - budget.faults >= 6
    /\ task.result = EmptyResult

\* C4: the monitor loop has no terminal state: whatever a cycle's outcome
\* (release, no release, error, timeout) the loop is back at its head, and
\* as long as cycles remain another cycle starts.
C4_LoopGoesOn ==
    /\ (task.mode = "loop") ~> (task.mode = "loop" /\ task.pc = "adjust")
    /\ \A n \in 1..MaxLiveCycles :
           (task.mode = "loop" /\ budget.cycles = n) ~> (budget.cycles = n - 1)

\* the loop sleeps again after a failed cycle
C4_Witness ==
    /\ task.mode = "loop" /\ task.pc = "sleep"
    /\ task.consecutive_failures > 0

\* the release statistics change in this step
ReleaseStatsChange ==
    \/ monitor_state'.release_count # monitor_state.release_count
    \/ monitor_state'.total_freed_mb # monitor_state.total_freed_mb
    \/ monitor_state'.last_release_time # monitor_state.last_release_time

\* C5: release_count, total_freed_mb and the last-release time change only
\* when a release completes, and then by exactly 1, by that release's
\* memory_freed_mb and to the completion instant, which is also last_gc_time;
\* every completed release is counted, failed steps or not.
C5_ReleaseStats ==
    /\ [](/\ monitor_state.release_count = obs.completed
          /\ monitor_state.total_freed_mb = obs.freed_sum
          /\ monitor_state.last_release_time = obs.last_completion)
    /\ [][ReleaseStatsChange =>
              /\ task.pc = "stamp_state"
              /\ monitor_state'.release_count = monitor_state.release_count + 1
              /\ monitor_state'.total_freed_mb =
                     monitor_state.total_freed_mb + task.result.memory_freed_mb
              /\ monitor_state'.last_release_time = task.timestamp
              /\ last_gc_time' = task.timestamp
              /\ task'.release_ret = "Ok"]_vars

\* two releases completed, memory freed
C5_Witness ==
    /\ monitor_state.release_count = 2
    /\ monitor_state.total_freed_mb > 0

\* the release in progress has computed its memory_freed_mb
FreedComputed ==
    /\ obs.entered
    /\ task.site = "after"
    /\ task.pc \in {"pressure_lock", "state_lock", "stamp_gc", "stamp_state",
                    "cycle_done", "returned"}
    /\ task.ret # "Timeout"

\* C6: memory_freed_mb = max(0, usage_before - usage_after): never negative,
\* never more than usage_before, and 0 when usage_after >= usage_before.
C6_FreedMb ==
    FreedComputed =>
        /\ task.result.memory_freed_mb =
               Max(0, task.memory_before - task.memory_after)
        /\ task.result.memory_freed_mb >= 0
        /\ task.result.memory_freed_mb <= task.memory_before
        /\ task.memory_after >= task.memory_before =>
               task.result.memory_freed_mb = 0

\* usage grew during the release: nothing freed
C6_Witness ==
    /\ FreedComputed /\ task.pc = "returned"
    /\ task.memory_after > task.memory_before
    /\ task.memory_before > 0
    /\ task.result.memory_freed_mb = 0

\* C7: the peak usage never decreases, is never below the current usage, and
\* equals the largest usage ever written into MonitorState.
C7_Peak ==
    /\ [](/\ monitor_state.peak_usage_mb >= monitor_state.current_usage_mb
          /\ monitor_state.peak_usage_mb = obs.max_written)
    /\ [][monitor_state'.peak_usage_mb >= monitor_state.peak_usage_mb]_vars

\* the current usage fell below an earlier peak
C7_Witness ==
    /\ monitor_state.current_usage_mb > 0
    /\ monitor_state.peak_usage_mb > monitor_state.current_usage_mb

IntervalRange == MinIntervalSecs..MaxIntervalSecs

\* C9 (as amended): calculate_adaptive_interval returns a value within
\* [5, 300] seconds, or, while the last adjustment is less than 60 s old, the
\* current interval it was given; the monitor loop sleeps a duration within
\* [5, 300] seconds or, until its first adjustment, the configured
\* check_interval_secs.
C9_IntervalOrUnchanged ==
    /\ call.fn = "calculate_adaptive_interval" =>
           \A p \in Levels :
               \/ call.result[p] \in IntervalRange
               \/ /\ call.result[p] = call.current_interval
                  /\ call.t - call.last_adjustment < from_secs(AdjustWindowSecs)
    /\ obs.returned_interval # NoInstant =>
           \/ obs.returned_interval \in IntervalRange
           \/ obs.returned_interval = config.check_interval_secs
    /\ obs.slept # NoInstant =>
           \/ obs.slept \in IntervalRange
           \/ obs.slept = config.check_interval_secs
    /\ (task.mode = "loop" /\ performance_stats.interval_adjustments > 0) =>
           task.current_interval \in IntervalRange

\* the loop adopted a newly computed interval
C9_Witness ==
    /\ task.mode = "loop"
    /\ performance_stats.interval_adjustments > 0
    /\ obs.returned_interval \in IntervalRange
    /\ obs.returned_interval # config.check_interval_secs

\* C9 as stated: every value returned, and every duration slept, is within
\* [5, 300] seconds
C9_AlwaysInRange ==
    /\ call.fn = "calculate_adaptive_interval" =>
           \A p \in Levels : call.result[p] \in IntervalRange
    /\ obs.returned_interval # NoInstant => obs.returned_interval \in IntervalRange
    /\ obs.slept # NoInstant => obs.slept \in IntervalRange

\* C10: with the other inputs fixed, the interval returned for a higher
\* pressure level is never longer than for a lower one.
C10_Monotone ==
    call.fn = "calculate_adaptive_interval" =>
        /\ call.result["Critical"] <= call.result["High"]
        /\ call.result["High"] <= call.result["Medium"]
        /\ call.result["Medium"] <= call.result["Low"]

\* a recomputed interval, shorter under Critical than under Low
C10_Witness ==
    /\ call.fn = "calculate_adaptive_interval"
    /\ call.t - call.last_adjustment >= from_secs(AdjustWindowSecs)
    /\ call.result["Critical"] < call.result["High"]
    /\ call.result["High"] < call.result["Medium"]
    /\ call.result["Medium"] < call.result["Low"]

\* the interval is recomputed, not suppressed, and not cut by the clamp
Recomputed(f) ==
    /\ call.t - call.last_adjustment >= from_secs(AdjustWindowSecs)
    /\ call.result[f] > MinIntervalSecs
    /\ call.result[f] < MaxIntervalSecs

\* C11: with the other inputs fixed, the interval returned is non-decreasing
\* in the consecutive-failure count; it is the same for 0..2 failures, for
\* 3..5 and for more than 5, and a recomputed interval is the base interval
\* times the pressure multiplier times 1.0, 1.5 and 2.0 in these groups.
C11_FailureMonotone ==
    call.fn = "calculate_adaptive_interval_by_failures" =>
        /\ \A f, g \in 0..MaxFailures : f <= g => call.result[f] <= call.result[g]
        /\ \A f \in 0..MaxFailures :
               call.result[f] = call.result[IF f <= 2 THEN 0 ELSE IF f <= 5 THEN 3 ELSE 6]
        /\ \A f \in 0..MaxFailures :
               Recomputed(f) =>
                   call.result[f] =
                       (call.base_interval * pressure_multiplier_x4(call.pressure)
                            * (IF f <= 2 THEN 2 ELSE IF f <= 5 THEN 3 ELSE 4)) \div 8

\* a recomputed interval that grows at 3 and again at 6 failures
C11_Witness ==
    /\ call.fn = "calculate_adaptive_interval_by_failures"
    /\ Recomputed(0) /\ Recomputed(6)
    /\ call.result[2] < call.result[3]
    /\ call.result[5] < call.result[6]

\* the history with the new sample pushed, before any eviction
Pushed == Append(call.before, << call.t, call.memory_mb >>)

\* how many samples the record evicted
Evicted == Len(Pushed) - Len(memory_history)

\* C12: right after update_memory_history the history holds at most 1000
\* samples, none older than 3600 s; it is the pushed history without its
\* oldest samples, ending with the new sample, and a sample is evicted only
\* for its age or, the oldest one, for the count.
C12_HistoryBounds ==
    call.fn = "update_memory_history" =>
        /\ Len(memory_history) <= HistoryCap
        /\ \A i \in 1..Len(memory_history) :
               call.t - memory_history[i][1] <= from_secs(HistoryMaxAgeSecs)
        /\ Evicted >= 0
        /\ memory_history = SubSeq(Pushed, Evicted + 1, Len(Pushed))
        /\ memory_history[Len(memory_history)] = << call.t, call.memory_mb >>
        /\ Len(Pushed) > HistoryCap => Evicted >= 1
        /\ \A i \in 1..Evicted :
               \/ call.t - Pushed[i][1] >= from_secs(HistoryMaxAgeSecs)
               \/ i = 1 /\ Len(Pushed) > HistoryCap

\* a sample recorded onto a full history: the oldest one made room
C12_Witness ==
    /\ call.fn = "update_memory_history"
    /\ Len(call.before) = HistoryCap
    /\ Len(memory_history) = HistoryCap
    /\ memory_history[1] = call.before[2]

\* usages and timestamps both strictly increasing along the history
StrictlyIncreasing(hist) ==
    \A i \in 1..(Len(hist) - 1) :
        hist[i][1] < hist[i + 1][1] /\ hist[i][2] < hist[i + 1][2]

\* C13 as stated: on a history of at least 10 samples with strictly
\* increasing usages and timestamps (100, 105, ..., 195 recorded 10 ms
\* apart), get_memory_trend returns Some positive value.
C13_PositiveTrend ==
    ( /\ call.fn = "get_memory_trend"
      /\ Len(memory_history) >= TrendMinSamples
      /\ StrictlyIncreasing(memory_history) ) =>
        /\ call.result.some
        /\ call.result.delta_mb > 0

\* the newest and the oldest sample of the sub-window the estimator reads
WindowNewest == memory_history[Len(memory_history)]
WindowOldest ==
    memory_history[Len(memory_history)
                       - Min(Max(Len(memory_history) \div 4, 5), 50) + 1]

\* C14 as stated: get_memory_trend is None below 10 samples; otherwise, over
\* the most recent clamp(len/4, 5, 50) samples, it is None only when the
\* sub-window spans zero time and else equals
\* (newest.usage - oldest.usage) * 3600 / (newest.time - oldest.time).
C14_ReferenceEstimator ==
    call.fn = "get_memory_trend" =>
        IF Len(memory_history) < 10
        THEN ~call.result.some
        ELSE IF WindowNewest[1] = WindowOldest[1]
             THEN ~call.result.some
             ELSE /\ call.result.some
                  /\ call.result.delta_mb * (WindowNewest[1] - WindowOldest[1])
                         = (WindowNewest[2] - WindowOldest[2]) * 1000
                               * call.result.span_secs

RECURSIVE DeviationSum(_, _, _, _, _)
\* the sum over the samples lo..hi of (usage - num / den), times den
DeviationSum(hist, lo, hi, num, den) ==
    IF lo > hi THEN 0
    ELSE IF lo = hi THEN den * hist[lo][2] - num
    ELSE DeviationSum(hist, lo, (lo + hi) \div 2, num, den)
             + DeviationSum(hist, (lo + hi) \div 2 + 1, hi, num, den)

\* C15: calculate_average_memory_usage returns the arithmetic mean of the
\* usages of all retained samples (the value from which their deviations sum
\* to zero), and 0.0 for the empty history.
C15_Average ==
    call.fn = "calculate_average_memory_usage" =>
        /\ call.result.den > 0
        /\ Len(memory_history) = 0 => call.result.num = 0
        /\ DeviationSum(memory_history, 1, Len(memory_history),
                        call.result.num, call.result.den) = 0

\* the average of a full history, not a whole number of MB
C15_Witness ==
    /\ call.fn = "calculate_average_memory_usage"
    /\ Len(memory_history) = HistoryCap
    /\ call.result.num % call.result.den # 0

\* C16 as stated: an accessor call of an external reader, at any point of the
\* loop, leaves MonitorState, the usage history and PerformanceStats
\* unchanged.
C16_ReadersWriteNothing ==
    [][call' # call =>
           UNCHANGED << monitor_state, memory_history, performance_stats >>]_vars

\* C17 as stated: a manager whose threshold_mb, check_interval_secs or
\* gc_cooldown_secs is zero is rejected at construction, so the monitor loop
\* never runs with a zero configuration value.
C17_ZeroConfigRejected ==
    task.mode = "loop" =>
        /\ config.threshold_mb > 0
        /\ config.check_interval_secs > 0
        /\ config.gc_cooldown_secs > 0

\* C18: the loop's consecutive-failure counter goes up by exactly 1 in each
\* cycle that ends in a check error or in the 30 s timeout, and back to 0 in
\* each cycle that returns Ok, with or without a release; so it always equals
\* the number of failed cycles since the last successful one.
C18_FailureCounter ==
    /\ task.consecutive_failures = obs.failed_run
    /\ task.pc = "cycle_done" => task.ret \in {"Some", "None", "Err", "Timeout"}

\* two cycles have failed in a row after a cycle that succeeded
C18_Witness ==
    /\ task.consecutive_failures = 2
    /\ obs.succeeded > 0

\* a failed cycle, then a cycle with a release that resets the counter
C18_WitnessReset ==
    /\ task.consecutive_failures = 0
    /\ obs.succeeded > 0
    /\ monitor_state.release_count > 0
    /\ performance_stats.memory_query_failures > 0

\* C19: while the last adjustment is less than 60 s old,
\* calculate_adaptive_interval returns the current interval unchanged; so any
\* two changes of the loop's sleep interval, and the loop start and the first
\* change, are at least 60 s apart.
C19_Suppressed ==
    /\ [](call.fn = "calculate_adaptive_interval" =>
             (call.t - call.last_adjustment < from_secs(AdjustWindowSecs) =>
                  \A p \in Levels : call.result[p] = call.current_interval))
    /\ [][(task.mode = "loop" /\ task'.current_interval # task.current_interval) =>
               now - obs.interval_set_at >= from_secs(AdjustWindowSecs)]_vars

\* the loop has changed its sleep interval twice
C19_Witness ==
    /\ task.mode = "loop"
    /\ obs.interval_changes = 2

\* the usage query at the head of a monitor cycle returns a usage
CycleQueryReturned ==
    /\ task.mode = "loop" /\ task.site = "check"
    /\ task.pc \in {"query", "fallback"}
    /\ task'.pc = "pressure_lock"

\* the usage query at the head of a monitor cycle returns an error
CycleQueryFailed ==
    /\ task.mode = "loop" /\ task.site = "check"
    /\ task.pc \in {"query", "fallback"}
    /\ task'.pc = "cycle_done" /\ task'.ret = "Err"

\* C20 as stated: a usage query of a monitor cycle that succeeds, by the
\* allocator probe or by the OS-level fallback, adds 1 to memory_query_success
\* and appends exactly one sample with the returned usage to the history; one
\* that fails adds 1 to memory_query_failures.
C20_QueriesRecorded ==
    [][/\ CycleQueryReturned =>
            /\ performance_stats'.memory_query_success =
                   performance_stats.memory_query_success + 1
            /\ memory_history' =
                   update_memory_history(memory_history, now, task'.current_memory)
       /\ CycleQueryFailed =>
            performance_stats'.memory_query_failures =
                performance_stats.memory_query_failures + 1]_vars

\* C21 as stated: every blocking call is under a timeout, so a usage query
\* that has started always hands a value or an error back to its caller, also
\* when the OS-level query never completes.
C21_QueryReturns ==
    (task.pc \in {"query", "fallback"}) ~> (task.pc \notin {"query", "fallback"})

\* C22 as stated, for the cache cleanup: once the cleanup of a release has
\* failed or timed out, the pipeline still goes through the allocator purge,
\* the settle delay and the usage_after snapshot, with cache_entries_cleared
\* reported as 0; no step drops it.
C22_LaterStepsRun ==
    [][(obs.cache_failed /\ task.pc \in {"purge", "settle"}) =>
           /\ task'.pc = IF task.pc = "purge" THEN "settle" ELSE "query"
           /\ task'.pc = "query" => task'.site = "after"
           /\ task'.result.cache_entries_cleared = 0]_vars

\* the initial usage query of check_and_release_if_needed is in progress
InitialQuery == task.fn = "check" /\ task.site = "check" /\ task.pc \in {"query", "fallback"}

\* C23: when the initial usage query of check_and_release_if_needed fails,
\* the call returns an error at once, no release pipeline runs, and
\* MonitorState and the cooldown clock are as they were when the call began.
C23_FailedQueryLeavesState ==
    /\ [][InitialQuery => UNCHANGED << monitor_state, last_gc_time >>]_vars
    /\ [][(InitialQuery /\ performance_stats'.memory_query_failures
                               # performance_stats.memory_query_failures) =>
               /\ task'.ret = "Err"
               /\ task'.pc = ReturnPc(task)]_vars
    /\ [](task.ret = "Err" =>
               /\ ~obs.entered
               /\ task.release_ret = "Pending"
               /\ monitor_state.release_count = obs.rc_at_start
               /\ monitor_state.last_release_time = obs.completion_at_start)

\* a call made after a completed release returned an error
C23_Witness ==
    /\ task.ret = "Err"
    /\ task.pc \in {"returned", "cycle_done"}
    /\ monitor_state.release_count > 0
    /\ performance_stats.memory_query_failures > 0

\* the gate of a call was evaluated on a manager that has not released yet
FreshGate ==
    /\ GateEvaluated
    /\ obs.rc_at_start = 0
    /\ obs.completion_at_start = NoInstant

\* C24: a freshly constructed manager starts inside a cooldown window: until
\* gc_cooldown_secs have elapsed since construction the gate is closed even
\* for a usage above the threshold, although no release has ever run; once
\* they have elapsed it opens for a usage above the threshold.
C24_FreshCooldown ==
    FreshGate =>
        /\ obs.gate_time - start_time < CooldownMs =>
               /\ ~obs.entered
               /\ task.pc \in {"cycle_done", "returned"} => task.ret = "None"
               /\ monitor_state.release_count = 0
        /\ ( /\ obs.gate_time - start_time >= CooldownMs
             /\ task.current_memory > config.threshold_mb ) => obs.entered

\* a usage above the threshold, denied within the first cooldown window
C24_Witness ==
    /\ FreshGate
    /\ task.current_memory > config.threshold_mb
    /\ obs.gate_time - start_time < CooldownMs
    /\ task.ret = "None"
    /\ task.pc \in {"cycle_done", "returned"}

\* a usage above the threshold, admitted once the first window has elapsed
C24_WitnessOpen ==
    /\ FreshGate
    /\ task.current_memory > config.threshold_mb
    /\ obs.gate_time - start_time >= CooldownMs
    /\ obs.entered
    /\ monitor_state.release_count = 1

InGatedPipeline(t) ==
    /\ t.fn = "check"
    /\ t.site \in {"before", "after"}
    /\ t.pc # "returned"

\* C26 as stated: with two concurrent callers of check_and_release_if_needed
\* no two executions of the release pipeline overlap: the two callers never
\* both pass the gate before the cooldown clock is updated.
C26_NoOverlap ==
    call.fn = "parked" => ~(InGatedPipeline(task) /\ InGatedPipeline(call.task))

\* a release pipeline is running in the task
ReleaseInProgress ==
    /\ task.site \in {"before", "after"}
    /\ task.pc \notin {"returned", "cycle_done", "aborted"}

\* C27 as stated: whenever release_count >= 1 and no release is in progress,
\* the cooldown clock last_gc_time equals monitor_state.last_release_time,
\* also after a cycle was cancelled by the cycle timeout or the task was
\* aborted while a release was in flight.
C27_ClockMatchesState ==
    (monitor_state.release_count >= 1 /\ ~ReleaseInProgress) =>
        last_gc_time = monitor_state.last_release_time

\* C28: the monitor loop and concurrent accessor calls cannot deadlock: as
\* long as a task has work left some task can take a step; the only lock
\* taken while another is held is system_memory_history under
\* memory_history; and no lock is held across a usage query, a sleep, a
\* cache cleanup or a purge.
C28_NoDeadlock ==
    call.fn = "locks" =>
        /\ (\E p \in LockTasks : Working(p)) => \E p \in LockTasks : CanStep(p)
        /\ \A p \in LockTasks :
               \/ Len(call.holds[p]) <= 1
               \/ call.holds[p] = << "memory_history", "system_memory_history" >>
        /\ \A p \in LockTasks :
               (Working(p) /\ Head(call.script[p])[1] = "await") =>
                   call.holds[p] = << >>

\* a task holds memory_history and system_memory_history while another
\* waits for memory_history and a third for system_memory_history
C28_Witness ==
    /\ call.fn = "locks"
    /\ \E p, q, r \in LockTasks :
          /\ call.holds[p] = << "memory_history", "system_memory_history" >>
          /\ Working(q) /\ Head(call.script[q]) = << "lock", "memory_history" >>
          /\ Working(r) /\ Head(call.script[r]) = << "lock", "system_memory_history" >>

\* C29 as stated: in every state after start_monitoring,
\* PerformanceStats.current_dynamic_interval is the interval the loop
\* currently sleeps for, also before the first adjustment and for a
\* check_interval_secs other than 30, and interval_adjustments is the number
\* of times that interval has changed.
C29_StatsMatchLoop ==
    task.mode = "loop" =>
        /\ performance_stats.current_dynamic_interval = task.current_interval
        /\ performance_stats.interval_adjustments = obs.interval_changes

\* C30 as stated: every MemoryStatus returned by get_memory_status is
\* self-consistent: its pressure is the level classified for its current_mb
\* and its threshold_mb.
C30_StatusConsistent ==
    (call.fn = "get_memory_status" /\ call.pc = "returned") =>
        call.result.pressure =
            calculate_pressure_level(call.result.current_mb, call.result.threshold_mb)

\* get_memory_status returns in this step
StatusReturned ==
    /\ call.fn = "get_memory_status" /\ call.pc = "read"
    /\ call'.pc = "returned"

\* C30 (as amended): a MemoryStatus carries the usage get_memory_status
\* sampled itself, the configured threshold, and the stored pressure: the
\* level classified for the usage last passed to the pressure update (Low
\* when none was), not for its own current_mb.
C30_StatusReportsStored ==
    [][StatusReturned =>
           /\ call'.result.current_mb = call.current_mb
           /\ call'.result.threshold_mb = config.threshold_mb
           /\ call'.result.pressure =
                  IF obs.classified = NoInstant
                  THEN "Low"
                  ELSE calculate_pressure_level(obs.classified, config.threshold_mb)]_vars

\* a status whose pressure, classified by the loop for 3 MB, is not the level
\* of the 12 MB or more it reports
C30_Witness ==
    /\ call.fn = "get_memory_status" /\ call.pc = "returned"
    /\ obs.classified = 3
    /\ call.result.current_mb >= 12
    /\ call.result.pressure = "Low"

====
